---- MODULE Spec2Model ----
(***************************************************************************)
(* A model of two components of undici:                                    *)
(*   - FormDataParser (lib/formdata/parser.js), the incremental            *)
(*     multipart/form-data parser, with its helpers combineChunks,         *)
(*     ParserState and CRLF (lib/formdata/util.js);                        *)
(*   - HeadersList and Headers (lib/cookie-store/cookie-change-event.js,   *)
(*     second half of the file).                                           *)
(* Byte strings and JavaScript strings are sequences of one-character      *)
(* strings.  The JavaScript value undefined is the value Undefined.        *)
(***************************************************************************)
EXTENDS Integers, Sequences, FiniteSets, TLC

VARIABLES parser, header, input, written, mode, raised,
          backer, guard, ret, iterator

vars == <<parser, header, input, written, mode, raised, backer, guard, ret,
          iterator>>
parserVars == <<parser, header, input, written, mode, raised>>
headersVars == <<backer, guard, ret, iterator>>

(***************************************************************************)
(* JavaScript values and Buffer / String primitives                        *)
(***************************************************************************)

\* The JavaScript value undefined (what reading a missing property gives).
Undefined == <<"#undefined">>

\* String(undefined), as produced by '' + undefined.
UndefinedText == <<"u", "n", "d", "e", "f", "i", "n", "e", "d">>

\* String coercion of a value in a string concatenation.
ToText(v) == IF v = Undefined THEN UndefinedText ELSE v

Max(a, b) == IF a > b THEN a ELSE b
Min(a, b) == IF a < b THEN a ELSE b

\* Buffer.prototype.indexOf(pat, from) / String.prototype.indexOf:
\* 0-based index of the first occurrence at or after from, else -1.
IndexOf(buf, pat, from) ==
  LET hits == {i \in from..(Len(buf) - Len(pat)) :
                 SubSeq(buf, i + 1, i + Len(pat)) = pat}
  IN IF hits = {} THEN -1 ELSE CHOOSE i \in hits : \A j \in hits : i <= j

\* Buffer.prototype.slice(start, end) / subarray(start, end), 0-based,
\* end exclusive; a negative index counts from the end of the buffer.
Slice(buf, start, end) ==
  LET n == Len(buf)
      s == IF start < 0 THEN Max(n + start, 0) ELSE Min(start, n)
      e == IF end < 0 THEN Max(n + end, 0) ELSE Min(end, n)
  IN IF e <= s THEN <<>> ELSE SubSeq(buf, s + 1, e)

\* Buffer.prototype.slice(start): to the end of the buffer.
SliceFrom(buf, start) == Slice(buf, start, Len(buf))

RECURSIVE Concat(_)
\* Buffer.concat(chunks).
Concat(chunks) ==
  IF chunks = <<>> THEN <<>> ELSE Head(chunks) \o Concat(Tail(chunks))

(***************************************************************************)
(* lib/formdata/util.js                                                    *)
(***************************************************************************)

CRLF == <<"\r", "\n">>

Beginning == 0
Headers == 1
Body == 2
Boundary == 3
ParserState == {Beginning, Headers, Body, Boundary}

combineChunks(chunks) ==
  IF Len(chunks) = 1 THEN chunks[1] ELSE Concat(chunks)

(***************************************************************************)
(* lib/formdata/parser.js: FormDataParser                                  *)
(* A parser object is a record: state, currentChunk, nextChunk, lastBytes  *)
(* and boundary are the private fields; events is the sequence of events   *)
(* emitted so far; scans records, for every body event, the rolling tail   *)
(* and the index at which the boundary marker was found in it; err is the  *)
(* exception the running write call has thrown ("none" if none); log is,   *)
(* for the last write call of the caller, the private fields at each entry *)
(* to write and to parse that call made, in the order of the entries.      *)
(***************************************************************************)

\* The threshold of line 141.
TailThreshold == 1024

Emit(p, type, data) ==
  [p EXCEPT !.events = Append(@, [type |-> type, data |-> data])]

Throw(p, e) == [p EXCEPT !.err = e]

\* The private fields on entry to write(chunk) or to parse, and the number
\* of events emitted before it.
Entered(p, kind, chunk) ==
  [p EXCEPT !.log = Append(@, [kind |-> kind, chunk |-> chunk,
                               state |-> p.state,
                               current |-> p.currentChunk,
                               next |-> p.nextChunk,
                               tail |-> p.lastBytes,
                               emitted |-> Len(p.events)])]

RECURSIVE write(_, _)
RECURSIVE parse(_)
RECURSIVE writeEach(_, _)

\* The loops "for (const nextChunk of next) this.write(nextChunk)" of parse:
\* an exception thrown by a write ends the loop.
writeEach(p, next) ==
  IF next = <<>> \/ p.err # "none" THEN p
  ELSE writeEach(write(p, Head(next)), Tail(next))

\* parse emitting the boundary event after it has written the stashed
\* remainder back instead of before.
parse_EmitLast(this) ==
  LET p == Entered(this, "parse", <<>>)
      buffer == combineChunks(p.currentChunk)
      reset(q) == [q EXCEPT !.currentChunk = <<>>, !.nextChunk = <<>>]
  IN CASE p.state \in {Boundary, Beginning} ->
            IF IndexOf(buffer, p.boundary, 0) = -1
            THEN Throw(p, "AssertionError")
            ELSE Emit(writeEach([reset(p) EXCEPT !.state = Headers], p.nextChunk),
                      "boundary",
                      IF p.state = Beginning
                      THEN SliceFrom(buffer, 2)
                      ELSE SliceFrom(buffer, 4))
       [] p.state = Headers ->
            LET e == IF Len(buffer) # 0
                     THEN Emit(p, "header", buffer)
                     ELSE [p EXCEPT !.state = Body]
            IN writeEach(reset(e), p.nextChunk)
       [] p.state = Body ->
            LET e == Emit(p, "body", buffer)
            IN writeEach([reset(e) EXCEPT !.state = Boundary], p.nextChunk)

\* parse setting the state to Headers after the body event.
parse_BodyToHeaders(this) ==
  LET p == Entered(this, "parse", <<>>)
      buffer == combineChunks(p.currentChunk)
      reset(q) == [q EXCEPT !.currentChunk = <<>>, !.nextChunk = <<>>]
  IN CASE p.state \in {Boundary, Beginning} ->
            IF IndexOf(buffer, p.boundary, 0) = -1
            THEN Throw(p, "AssertionError")
            ELSE LET e == Emit(p, "boundary",
                               IF p.state = Beginning
                               THEN SliceFrom(buffer, 2)
                               ELSE SliceFrom(buffer, 4))
                 IN writeEach([reset(e) EXCEPT !.state = Headers], p.nextChunk)
       [] p.state = Headers ->
            LET e == IF Len(buffer) # 0
                     THEN Emit(p, "header", buffer)
                     ELSE [p EXCEPT !.state = Body]
            IN writeEach(reset(e), p.nextChunk)
       [] p.state = Body ->
            LET e == Emit(p, "body", buffer)
            IN writeEach([reset(e) EXCEPT !.state = Headers], p.nextChunk)

\* parse emitting a header event for the empty line as well.
parse_EmptyHeader(this) ==
  LET p == Entered(this, "parse", <<>>)
      buffer == combineChunks(p.currentChunk)
      reset(q) == [q EXCEPT !.currentChunk = <<>>, !.nextChunk = <<>>]
  IN CASE p.state \in {Boundary, Beginning} ->
            IF IndexOf(buffer, p.boundary, 0) = -1
            THEN Throw(p, "AssertionError")
            ELSE LET e == Emit(p, "boundary",
                               IF p.state = Beginning
                               THEN SliceFrom(buffer, 2)
                               ELSE SliceFrom(buffer, 4))
                 IN writeEach([reset(e) EXCEPT !.state = Headers], p.nextChunk)
       [] p.state = Headers ->
            LET e == IF Len(buffer) # 0
                     THEN Emit(p, "header", buffer)
                     ELSE [Emit(p, "header", buffer) EXCEPT !.state = Body]
            IN writeEach(reset(e), p.nextChunk)
       [] p.state = Body ->
            LET e == Emit(p, "body", buffer)
            IN writeEach([reset(e) EXCEPT !.state = Boundary], p.nextChunk)

\* parse without the assert of the Boundary / Beginning case.
parse_NoAssert(this) ==
  LET p == Entered(this, "parse", <<>>)
      buffer == combineChunks(p.currentChunk)
      reset(q) == [q EXCEPT !.currentChunk = <<>>, !.nextChunk = <<>>]
  IN CASE p.state \in {Boundary, Beginning} ->
            LET e == Emit(p, "boundary",
                          IF p.state = Beginning
                          THEN SliceFrom(buffer, 2)
                          ELSE SliceFrom(buffer, 4))
            IN writeEach([reset(e) EXCEPT !.state = Headers], p.nextChunk)
       [] p.state = Headers ->
            LET e == IF Len(buffer) # 0
                     THEN Emit(p, "header", buffer)
                     ELSE [p EXCEPT !.state = Body]
            IN writeEach(reset(e), p.nextChunk)
       [] p.state = Body ->
            LET e == Emit(p, "body", buffer)
            IN writeEach([reset(e) EXCEPT !.state = Boundary], p.nextChunk)

\* parse(chunks), always called with chunks = this.#currentChunk.
parse(this) ==
  LET p == Entered(this, "parse", <<>>)
      buffer == combineChunks(p.currentChunk)
      reset(q) == [q EXCEPT !.currentChunk = <<>>, !.nextChunk = <<>>]
  IN CASE p.state \in {Boundary, Beginning} ->
            IF IndexOf(buffer, p.boundary, 0) = -1
            THEN Throw(p, "AssertionError")
            ELSE LET e == Emit(p, "boundary",
                               IF p.state = Beginning
                               THEN SliceFrom(buffer, 2)
                               ELSE SliceFrom(buffer, 4))
                 IN writeEach([reset(e) EXCEPT !.state = Headers], p.nextChunk)
       [] p.state = Headers ->
            LET e == IF Len(buffer) # 0
                     THEN Emit(p, "header", buffer)
                     ELSE [p EXCEPT !.state = Body]
            IN writeEach(reset(e), p.nextChunk)
       [] p.state = Body ->
            LET e == Emit(p, "body", buffer)
            IN writeEach([reset(e) EXCEPT !.state = Boundary], p.nextChunk)

\* write stashing the whole rolling tail as the remainder of a body.
write_WholeTail(this, chunk) ==
  LET p == Entered(this, "write", chunk)
  IN
  IF p.state \in {Beginning, Boundary, Headers}
  THEN LET crlf == IndexOf(chunk, CRLF, IF p.state = Boundary THEN 2 ELSE 0)
       IN IF crlf = -1
          THEN [p EXCEPT !.currentChunk = Append(@, chunk)]
          ELSE LET hdr == Slice(chunk, 0, crlf)
                   rest == SliceFrom(chunk, crlf + Len(CRLF))
               IN parse([p EXCEPT !.currentChunk = Append(@, hdr),
                                  !.nextChunk = IF Len(rest) # 0
                                                THEN Append(@, rest) ELSE @])
  ELSE \* ParserState.Body
       LET q == IF p.lastBytes = Undefined
                THEN IF IndexOf(chunk, CRLF, 0) = -1
                     THEN [p EXCEPT !.currentChunk = Append(@, chunk)]
                     ELSE [p EXCEPT !.lastBytes = chunk]
                ELSE [p EXCEPT !.lastBytes = @ \o chunk]
       IN IF q.lastBytes = Undefined
          THEN \* this.#lastBytes.indexOf on undefined
               Throw(q, "TypeError")
          ELSE LET boundaryIndex == IndexOf(q.lastBytes, q.boundary, 0)
               IN IF Len(q.lastBytes) < TailThreshold /\ boundaryIndex = -1
                  THEN q
                  ELSE IF boundaryIndex # -1
                  THEN LET toBoundary ==
                             Slice(q.lastBytes, 0, boundaryIndex - Len(CRLF))
                       IN parse([q EXCEPT
                            !.currentChunk = Append(@, toBoundary),
                            !.nextChunk = Append(@, q.lastBytes),
                            !.scans = Append(@, [tail |-> q.lastBytes,
                                                 index |-> boundaryIndex,
                                                 held |-> Concat(q.currentChunk)]),
                            !.lastBytes = Undefined])
                  ELSE q

\* write leaving the rolling tail set when it hands the body to parse.
write_KeepTail(this, chunk) ==
  LET p == Entered(this, "write", chunk)
  IN
  IF p.state \in {Beginning, Boundary, Headers}
  THEN LET crlf == IndexOf(chunk, CRLF, IF p.state = Boundary THEN 2 ELSE 0)
       IN IF crlf = -1
          THEN [p EXCEPT !.currentChunk = Append(@, chunk)]
          ELSE LET hdr == Slice(chunk, 0, crlf)
                   rest == SliceFrom(chunk, crlf + Len(CRLF))
               IN parse([p EXCEPT !.currentChunk = Append(@, hdr),
                                  !.nextChunk = IF Len(rest) # 0
                                                THEN Append(@, rest) ELSE @])
  ELSE \* ParserState.Body
       LET q == IF p.lastBytes = Undefined
                THEN IF IndexOf(chunk, CRLF, 0) = -1
                     THEN [p EXCEPT !.currentChunk = Append(@, chunk)]
                     ELSE [p EXCEPT !.lastBytes = chunk]
                ELSE [p EXCEPT !.lastBytes = @ \o chunk]
       IN IF q.lastBytes = Undefined
          THEN \* this.#lastBytes.indexOf on undefined
               Throw(q, "TypeError")
          ELSE LET boundaryIndex == IndexOf(q.lastBytes, q.boundary, 0)
               IN IF Len(q.lastBytes) < TailThreshold /\ boundaryIndex = -1
                  THEN q
                  ELSE IF boundaryIndex # -1
                  THEN LET toBoundary ==
                             Slice(q.lastBytes, 0, boundaryIndex - Len(CRLF))
                       IN parse([q EXCEPT
                            !.currentChunk = Append(@, toBoundary),
                            !.nextChunk =
                               Append(@, SliceFrom(q.lastBytes, Len(toBoundary))),
                            !.scans = Append(@, [tail |-> q.lastBytes,
                                                 index |-> boundaryIndex,
                                                 held |-> Concat(q.currentChunk)])])
                  ELSE q

\* write(chunk).
write(this, chunk) ==
  LET p == Entered(this, "write", chunk)
  IN
  IF p.state \in {Beginning, Boundary, Headers}
  THEN LET crlf == IndexOf(chunk, CRLF, IF p.state = Boundary THEN 2 ELSE 0)
       IN IF crlf = -1
          THEN [p EXCEPT !.currentChunk = Append(@, chunk)]
          ELSE LET hdr == Slice(chunk, 0, crlf)
                   rest == SliceFrom(chunk, crlf + Len(CRLF))
               IN parse([p EXCEPT !.currentChunk = Append(@, hdr),
                                  !.nextChunk = IF Len(rest) # 0
                                                THEN Append(@, rest) ELSE @])
  ELSE \* ParserState.Body
       LET q == IF p.lastBytes = Undefined
                THEN IF IndexOf(chunk, CRLF, 0) = -1
                     THEN [p EXCEPT !.currentChunk = Append(@, chunk)]
                     ELSE [p EXCEPT !.lastBytes = chunk]
                ELSE [p EXCEPT !.lastBytes = @ \o chunk]
       IN IF q.lastBytes = Undefined
          THEN \* this.#lastBytes.indexOf on undefined
               Throw(q, "TypeError")
          ELSE LET boundaryIndex == IndexOf(q.lastBytes, q.boundary, 0)
               IN IF Len(q.lastBytes) < TailThreshold /\ boundaryIndex = -1
                  THEN q
                  ELSE IF boundaryIndex # -1
                  THEN LET toBoundary ==
                             Slice(q.lastBytes, 0, boundaryIndex - Len(CRLF))
                       IN parse([q EXCEPT
                            !.currentChunk = Append(@, toBoundary),
                            !.nextChunk =
                               Append(@, SliceFrom(q.lastBytes, Len(toBoundary))),
                            !.scans = Append(@, [tail |-> q.lastBytes,
                                                 index |-> boundaryIndex,
                                                 held |-> Concat(q.currentChunk)]),
                            !.lastBytes = Undefined])
                  ELSE q

(***************************************************************************)
(* Characters: ASCII order and case                                        *)
(***************************************************************************)

UpperCase == <<"A", "B", "C", "D", "E", "F", "G", "H", "I", "J", "K", "L", "M",
               "N", "O", "P", "Q", "R", "S", "T", "U", "V", "W", "X", "Y", "Z">>
LowerCase == <<"a", "b", "c", "d", "e", "f", "g", "h", "i", "j", "k", "l", "m",
               "n", "o", "p", "q", "r", "s", "t", "u", "v", "w", "x", "y", "z">>

\* The characters the model uses, in ASCII order.
Ascii == <<"\t", "\n", "\r", " ", "\"", ",", "-", "/", "0", "1", "2", "3",
           ":", ";", "=">> \o UpperCase \o LowerCase

CharCode(c) == CHOOSE i \in 1..Len(Ascii) : Ascii[i] = c

ToLowerChar(c) ==
  IF \E i \in 1..Len(UpperCase) : UpperCase[i] = c
  THEN LowerCase[CHOOSE i \in 1..Len(UpperCase) : UpperCase[i] = c]
  ELSE c

\* String.prototype.toLowerCase.
toLowerCase(str) == [i \in 1..Len(str) |-> ToLowerChar(str[i])]

\* String.prototype.startsWith.
startsWith(str, prefix) ==
  Len(str) >= Len(prefix) /\ SubSeq(str, 1, Len(prefix)) = prefix

HTTPWhitespace == {"\t", "\n", "\r", " "}

\* HTTP token code points, among the characters the model uses.
IsToken(str) ==
  /\ Len(str) > 0
  /\ \A i \in 1..Len(str) : str[i] \notin HTTPWhitespace \cup {"\"", ",", "/", ":", ";", "="}

RECURSIVE TrimStart(_)
TrimStart(str) ==
  IF str # <<>> /\ Head(str) \in HTTPWhitespace THEN TrimStart(Tail(str)) ELSE str

RECURSIVE TrimEnd(_)
TrimEnd(str) ==
  IF str # <<>> /\ str[Len(str)] \in HTTPWhitespace
  THEN TrimEnd(SubSeq(str, 1, Len(str) - 1)) ELSE str

(***************************************************************************)
(* parseMIMEType (lib/fetch/dataURL.js, the WHATWG "parse a MIME type"     *)
(* algorithm), for inputs without quoted parameter values.  The result is  *)
(* Failure or a record; parameters is the sequence of (name, value) pairs  *)
(* in the order they were set.                                             *)
(***************************************************************************)

Failure == [failure |-> TRUE]

\* The length of the longest prefix of str holding no character of stop.
CollectLen(str, stop) ==
  LET ends == {i \in 0..Len(str) :
                 /\ \A j \in 1..i : str[j] \notin stop
                 /\ (i = Len(str) \/ str[i + 1] \in stop)}
  IN CHOOSE i \in ends : TRUE

ParametersHas(parameters, name) ==
  \E i \in 1..Len(parameters) : parameters[i].name = name

ParametersGet(parameters, name) ==
  parameters[CHOOSE i \in 1..Len(parameters) : parameters[i].name = name].value

RECURSIVE ParseParameters(_, _)
\* rest starts at a ";" (or is empty).
ParseParameters(rest, parameters) ==
  IF rest = <<>> THEN parameters
  ELSE LET afterSemi == TrimStart(Tail(rest))
           n == CollectLen(afterSemi, {";", "="})
           name == toLowerCase(SubSeq(afterSemi, 1, n))
           afterName == SubSeq(afterSemi, n + 1, Len(afterSemi))
       IN IF afterName = <<>> THEN parameters
          ELSE IF Head(afterName) = ";" THEN ParseParameters(afterName, parameters)
          ELSE LET afterEq == Tail(afterName)
                   m == CollectLen(afterEq, {";"})
                   value == TrimEnd(SubSeq(afterEq, 1, m))
                   tail == SubSeq(afterEq, m + 1, Len(afterEq))
               IN IF value # <<>> /\ IsToken(name) /\ ~ParametersHas(parameters, name)
                  THEN ParseParameters(tail,
                         Append(parameters, [name |-> name, value |-> value]))
                  ELSE ParseParameters(tail, parameters)

parseMIMEType(text) ==
  LET str == TrimEnd(TrimStart(text))
      t == CollectLen(str, {"/"})
      type == SubSeq(str, 1, t)
      afterType == SubSeq(str, t + 2, Len(str))
      u == CollectLen(afterType, {";"})
      subtype == TrimEnd(SubSeq(afterType, 1, u))
  IN IF ~IsToken(type) \/ t >= Len(str) THEN Failure
     ELSE IF ~IsToken(subtype) THEN Failure
     ELSE [type |-> toLowerCase(type),
           subtype |-> toLowerCase(subtype),
           parameters |-> ParseParameters(SubSeq(afterType, u + 1, Len(afterType)),
                                          <<>>)]

(***************************************************************************)
(* FormDataParser.constructor                                              *)
(***************************************************************************)

Multipart == <<"m", "u", "l", "t", "i", "p", "a", "r", "t">>
FormData == <<"f", "o", "r", "m", "-", "d", "a", "t", "a">>
BoundaryName == <<"b", "o", "u", "n", "d", "a", "r", "y">>

\* No header yet: the constructor has not been called.
NoHeader == <<"#none">>

\* No parser object: before construction, or the constructor threw.
NoParser == [constructed |-> FALSE]

\* The constructor without its check of the boundary parameter.
FormDataParser_NoBoundaryCheck(hdr) ==
  IF ~startsWith(hdr, Multipart \o <<"/">> \o FormData) THEN NoParser
  ELSE LET parsedMimeType == parseMIMEType(hdr)
       IN IF parsedMimeType = Failure THEN NoParser
          ELSE IF parsedMimeType.type # Multipart \/ parsedMimeType.subtype # FormData
          THEN NoParser
          ELSE [constructed |-> TRUE,
                mimeType |-> parsedMimeType,
                state |-> Beginning,
                currentChunk |-> <<>>,
                nextChunk |-> <<>>,
                boundary |-> <<"-", "-">> \o
                   (IF ParametersHas(parsedMimeType.parameters, BoundaryName)
                    THEN ParametersGet(parsedMimeType.parameters, BoundaryName)
                    ELSE UndefinedText),
                lastBytes |-> Undefined,
                events |-> <<>>,
                scans |-> <<>>,
                log |-> <<>>,
                err |-> "none"]

\* new FormDataParser(header): the parser object, or NoParser when the
\* constructor throws its TypeError.
FormDataParser(hdr) ==
  IF ~startsWith(hdr, Multipart \o <<"/">> \o FormData) THEN NoParser
  ELSE LET parsedMimeType == parseMIMEType(hdr)
       IN IF parsedMimeType = Failure THEN NoParser
          ELSE IF parsedMimeType.type # Multipart \/ parsedMimeType.subtype # FormData
          THEN NoParser
          ELSE IF ~ParametersHas(parsedMimeType.parameters, BoundaryName)
          THEN NoParser
          ELSE [constructed |-> TRUE,
                mimeType |-> parsedMimeType,
                state |-> Beginning,
                currentChunk |-> <<>>,
                nextChunk |-> <<>>,
                boundary |-> <<"-", "-">> \o
                   ParametersGet(parsedMimeType.parameters, BoundaryName),
                lastBytes |-> Undefined,
                events |-> <<>>,
                scans |-> <<>>,
                log |-> <<>>,
                err |-> "none"]

(***************************************************************************)
(* lib/cookie-store/cookie-change-event.js: HeadersList                    *)
(* The backing array (this.backer) is a sequence of JavaScript values:     *)
(* index i of the array is element i + 1 of the sequence.  An operation    *)
(* gives a record: backer, the array after it; err, the exception it threw *)
(* ("none" if none); value, what it returned.                              *)
(***************************************************************************)

\* The JavaScript value null.
Null == <<"#null">>

\* this[i] in a method of HeadersList: the object has the one property
\* backer and no indexed property, so the read gives undefined.
This(i) == Undefined

\* The indices contains visits: startingIndex, startingIndex + 2, ...
Visited(b, startingIndex) ==
  {i \in startingIndex..(Len(b) - 1) : (i - startingIndex) % 2 = 0}

\* contains(name, startingIndex): the index found (-1 if none), or threw
\* when the scan reaches an entry that has no toLowerCase method.
contains(b, name, startingIndex) ==
  LET stops == {i \in Visited(b, startingIndex) :
                  \/ b[i + 1] = Undefined
                  \/ toLowerCase(b[i + 1]) = toLowerCase(name)}
      first == CHOOSE i \in stops : \A j \in stops : i <= j
  IN IF startingIndex > Len(b) \/ stops = {}
     THEN [threw |-> FALSE, index |-> -1]
     ELSE IF b[first + 1] = Undefined
     THEN [threw |-> TRUE, index |-> -1]
     ELSE [threw |-> FALSE, index |-> first]

Returned(b, v) == [backer |-> b, err |-> "none", value |-> v]
Threw(b, e) == [backer |-> b, err |-> e, value |-> Undefined]

\* clear()
clear(b) == Returned(<<>>, Undefined)

\* append(name, value)
append(b, name, value) ==
  LET idx == contains(b, name, 0)
      stored == IF idx.index # -1 THEN This(idx.index) ELSE name
  IN IF idx.threw THEN Threw(b, "TypeError")
     ELSE Returned(b \o <<stored, value>>, Undefined)

\* this.backer.splice(index, 2)
Splice2(b, index) == SubSeq(b, 1, index) \o SubSeq(b, index + 3, Len(b))

RECURSIVE DeleteLoop(_, _, _)
\* The while loop of delete, entered with the result of contains.
DeleteLoop(b, name, found) ==
  IF found.threw THEN Threw(b, "TypeError")
  ELSE IF found.index = -1 THEN Returned(b, Undefined)
  ELSE LET spliced == Splice2(b, found.index)
       IN DeleteLoop(spliced, name, contains(spliced, name, found.index))

\* delete(name)
delete(b, name) == DeleteLoop(b, name, contains(b, name, 0))

\* set(name, value)
set(b, name, value) ==
  LET deleted == delete(b, name)
  IN IF deleted.err # "none" THEN deleted
     ELSE append(deleted.backer, name, value)

RECURSIVE GetLoop(_, _, _, _)
\* The while loop of get, entered with the result of contains.
GetLoop(b, name, found, list) ==
  IF found.threw THEN Threw(b, "TypeError")
  ELSE IF found.index = -1 THEN Returned(b, list)
  ELSE LET item == ToText(This(found.index + 1))
           joined == IF Len(list) = 0 THEN list \o item
                     ELSE list \o <<",", " ">> \o item
       IN GetLoop(b, name, contains(b, name, found.index + 2), joined)

\* get(name)
get(b, name) ==
  LET found == contains(b, name, 0)
  IN IF found.threw THEN Threw(b, "TypeError")
     ELSE IF found.index = -1 THEN Returned(b, Null)
     ELSE GetLoop(b, name, found, <<>>)

\* has(name)
has(b, name) ==
  LET found == contains(b, name, 0)
  IN IF found.threw THEN Threw(b, "TypeError")
     ELSE Returned(b, found.index # -1)

RECURSIVE StringLess(_, _)
\* a < b on JavaScript strings: by code units, a proper prefix first.
StringLess(a, b) ==
  IF b = <<>> THEN FALSE
  ELSE IF a = <<>> THEN TRUE
  ELSE IF Head(a) # Head(b) THEN CharCode(Head(a)) < CharCode(Head(b))
  ELSE StringLess(Tail(a), Tail(b))

RECURSIVE SortEntries(_)
\* Array.prototype.sort with the comparator of sortAndCombine, on entries
\* whose keys are distinct.
SortEntries(entries) ==
  IF entries = <<>> THEN <<>>
  ELSE LET least == CHOOSE i \in 1..Len(entries) :
                      \A j \in 1..Len(entries) :
                        j = i \/ StringLess(entries[i][1], entries[j][1])
       IN <<entries[least]>> \o
          SortEntries(SubSeq(entries, 1, least - 1) \o
                      SubSeq(entries, least + 1, Len(entries)))

RECURSIVE CombineLoop(_, _, _)
\* The for loop of sortAndCombine from index i on; headers is the object
\* built so far, as its entries in insertion order.
CombineLoop(b, i, headers) ==
  IF i >= Len(b) THEN Returned(b, SortEntries(headers))
  ELSE IF This(i) = Undefined THEN Threw(b, "TypeError")
  ELSE LET key == toLowerCase(This(i))
           value == ToText(This(i + 1))
           at == {k \in 1..Len(headers) : headers[k][1] = key}
       IN IF i # 0 /\ at # {}
          THEN CombineLoop(b, i + 2,
                 [headers EXCEPT ![CHOOSE k \in at : TRUE] =
                    <<key, @[2] \o <<",", " ">> \o value>>])
          ELSE CombineLoop(b, i + 2, Append(headers, <<key, value>>))

\* sortAndCombine(): the entries the returned iterator yields.
sortAndCombine(b) == CombineLoop(b, 0, <<>>)

(***************************************************************************)
(* lib/cookie-store/cookie-change-event.js: Headers                        *)
(* A Headers object is its header list (the variable backer) and its guard *)
(* (the variable guard).  A method takes the list and the guard and gives  *)
(* a result record as the methods of HeadersList do.                       *)
(***************************************************************************)

\* headerValueNormalize(potentialValue)
headerValueNormalize(potentialValue) == TrimEnd(TrimStart(potentialValue))

\* isValidHeaderName (lib/fetch/util.js): a non-empty HTTP token.
isValidHeaderName(name) == IsToken(name)

\* isValidHeaderValue (lib/fetch/util.js): no leading or trailing HTTP
\* whitespace and no HTTP newline byte.
isValidHeaderValue(value) ==
  /\ value = <<>> \/ (Head(value) \notin HTTPWhitespace
                      /\ value[Len(value)] \notin HTTPWhitespace)
  /\ \A i \in 1..Len(value) : value[i] \notin {"\r", "\n"}

\* Headers.append without the check of the guard.
Headers_append_Unguarded(b, g, name, value) ==
  LET normalized == headerValueNormalize(value)
  IN IF ~isValidHeaderName(name) THEN Threw(b, "InvalidArgument")
     ELSE IF ~isValidHeaderValue(normalized) THEN Threw(b, "InvalidArgument")
     ELSE append(b, name, normalized)

\* Headers.prototype.append(name, value)
Headers_append(b, g, name, value) ==
  LET normalized == headerValueNormalize(value)
  IN IF ~isValidHeaderName(name) THEN Threw(b, "InvalidArgument")
     ELSE IF ~isValidHeaderValue(normalized) THEN Threw(b, "InvalidArgument")
     ELSE IF g = "immutable" THEN Threw(b, "immutable")
     ELSE append(b, name, normalized)

\* Headers.prototype.delete(name)
Headers_delete(b, g, name) ==
  IF ~isValidHeaderName(name) THEN Threw(b, "InvalidArgument")
  ELSE IF g = "immutable" THEN Threw(b, "immutable")
  ELSE LET present == has(b, name)
       IN IF present.err # "none" THEN present
          ELSE IF ~present.value THEN Returned(b, Undefined)
          ELSE delete(b, name)

\* Headers.prototype.get(name)
Headers_get(b, name) ==
  IF ~isValidHeaderName(name) THEN Threw(b, "InvalidArgument")
  ELSE get(b, name)

\* Headers.prototype.has(name)
Headers_has(b, name) ==
  IF ~isValidHeaderName(name) THEN Threw(b, "InvalidArgument")
  ELSE has(b, name)

\* Headers.set with the check of the guard before the validation.
Headers_set_GuardFirst(b, g, name, value) ==
  LET normalized == headerValueNormalize(value)
  IN IF g = "immutable" THEN Threw(b, "immutable")
     ELSE IF ~isValidHeaderName(name) THEN Threw(b, "InvalidArgument")
     ELSE IF ~isValidHeaderValue(normalized) THEN Threw(b, "InvalidArgument")
     ELSE set(b, name, normalized)

\* Headers.prototype.set(name, value)
Headers_set(b, g, name, value) ==
  LET normalized == headerValueNormalize(value)
  IN IF ~isValidHeaderName(name) THEN Threw(b, "InvalidArgument")
     ELSE IF ~isValidHeaderValue(normalized) THEN Threw(b, "InvalidArgument")
     ELSE IF g = "immutable" THEN Threw(b, "immutable")
     ELSE set(b, name, normalized)

RECURSIVE FillLoop_Set(_, _, _, _)
\* The loops of fill calling headers.set where fill calls headers.append.
FillLoop_Set(b, g, kind, items) ==
  IF items = <<>> THEN Returned(b, Undefined)
  ELSE LET element == Head(items)
       IN IF kind = "sequence" /\ Len(element) # 2 THEN Threw(b, "TypeError")
          ELSE LET r == Headers_set(b, g, element[1], element[2])
               IN IF r.err # "none" THEN r
                  ELSE FillLoop_Set(r.backer, g, kind, Tail(items))

RECURSIVE FillLoop(_, _, _, _)
\* The for loops of fill over the items left of a converted initializer:
\* the elements of a sequence, or the entries of a record in the order
\* Object.entries gives them.
FillLoop(b, g, kind, items) ==
  IF items = <<>> THEN Returned(b, Undefined)
  ELSE LET element == Head(items)
       IN IF kind = "sequence" /\ Len(element) # 2 THEN Threw(b, "TypeError")
          ELSE LET r == Headers_append(b, g, element[1], element[2])
               IN IF r.err # "none" THEN r
                  ELSE FillLoop(r.backer, g, kind, Tail(items))

\* fill(headers, object), headers having list b and guard g; object is the
\* initializer after webidl.converters.HeadersInit.
fill(b, g, object) ==
  IF object.kind \in {"sequence", "record"}
  THEN FillLoop(b, g, object.kind, object.items)
  ELSE Threw(b, "TypeError")

\* The argument init of new Headers(init) when it is undefined.
NoInit == [kind |-> "undefined", items |-> <<>>]

\* new Headers(init): the list and the guard of the new object, and the
\* exception the constructor threw.
Headers_constructor(init) ==
  IF init = NoInit
  THEN [backer |-> <<>>, guard |-> "none", err |-> "none"]
  ELSE LET r == fill(<<>>, "none", init)
       IN [backer |-> r.backer, guard |-> "none", err |-> r.err]

\* No iterator has been made.
NoIterator == [made |-> FALSE]

\* makeIterator(iterator, name, kind) (lib/fetch/util.js): an object whose
\* next() takes the entries of the given iterator one by one; target is the
\* entries that iterator goes through, index the number taken, yielded the
\* values next() has returned, done whether next() has reported the end.
\* live marks an iterator that reads the header list at every next().
makeIterator(list, kind) ==
  [made |-> TRUE, live |-> FALSE, target |-> list, kind |-> kind, index |-> 0,
   yielded |-> <<>>, done |-> FALSE, err |-> "none"]

\* What an iterator of the given kind yields for one entry.
Project(kind, entry) ==
  CASE kind = "key" -> entry[1]
    [] kind = "value" -> entry[2]
    [] OTHER -> entry

\* next() of an iterator made by makeIterator, the header list being b.
IteratorNext(it, b) ==
  LET list == IF it.live THEN sortAndCombine(b) ELSE Returned(b, it.target)
  IN IF list.err # "none" THEN [it EXCEPT !.err = list.err]
     ELSE IF it.index >= Len(list.value) THEN [it EXCEPT !.done = TRUE]
     ELSE [it EXCEPT !.index = @ + 1,
                     !.yielded = Append(@, Project(it.kind, list.value[it.index + 1]))]

\* Headers.keys handing the header list itself to the iterator, which then
\* sorts and combines it at every next().
Headers_keys_Live(b) == Returned(b, [makeIterator(<<>>, "key") EXCEPT !.live = TRUE])

\* Headers.prototype.keys()
Headers_keys(b) ==
  LET list == sortAndCombine(b)
  IN IF list.err # "none" THEN Threw(b, list.err)
     ELSE Returned(b, makeIterator(list.value, "key"))

\* Headers.prototype.values()
Headers_values(b) ==
  LET list == sortAndCombine(b)
  IN IF list.err # "none" THEN Threw(b, list.err)
     ELSE Returned(b, makeIterator(list.value, "value"))

\* Headers.prototype.entries()
Headers_entries(b) ==
  LET list == sortAndCombine(b)
  IN IF list.err # "none" THEN Threw(b, list.err)
     ELSE Returned(b, makeIterator(list.value, "key+value"))

(***************************************************************************)
(* The environment of a Headers object: its owner sets the guard, callers  *)
(* call the methods of Headers, and the library's own code calls the       *)
(* methods of the HeadersList.  ret records the last call: the operation,  *)
(* its arguments, the list before it, the exception and the value.         *)
(***************************************************************************)

\* The most pairs a list grows to.
MaxPairs == 3

Names == {<<"a">>, <<"A">>, <<"b">>}
Values == {<<"1">>, <<"2">>, <<"3">>}

\* The arguments callers pass to Headers: also an illegal name, a value to
\* normalize and an illegal value.
ArgNames == Names \cup {<<>>}
ArgValues == Values \cup {<<" ", "1">>, <<"1", "\n", "2">>}

\* The guards (a Headers constructed by new has "none"; Request and
\* Response set the others).
Guards == {"none", "immutable", "request", "request-no-cors", "response"}

InitHeaders ==
  /\ backer = <<>>
  /\ guard = "none"
  /\ ret = [op |-> "none"]
  /\ iterator = NoIterator
  /\ parser = NoParser
  /\ header = NoHeader
  /\ input = <<>>
  /\ mode = "whole"
  /\ written = 0
  /\ raised = FALSE

\* The call op(name, value) on list backer gave result r.
Call(op, name, value, r) ==
  /\ backer' = r.backer
  /\ ret' = [op |-> op, name |-> name, value |-> value, before |-> backer,
             guard |-> guard, err |-> r.err, result |-> r.value]
  /\ UNCHANGED <<guard, parserVars>>

\* A call that makes no iterator and takes nothing from one.
Record(op, name, value, r) ==
  /\ Call(op, name, value, r)
  /\ UNCHANGED iterator

HasRoom == Len(backer) < 2 * MaxPairs

\* The owner of a new Headers object sets its guard.
SetGuard ==
  /\ guard = "none"
  /\ \E g \in Guards \ {"none"} : guard' = g
  /\ UNCHANGED <<backer, ret, iterator, parserVars>>

ListAppend ==
  /\ HasRoom
  /\ \E n \in Names, v \in Values : Record("append", n, v, append(backer, n, v))

ListSet ==
  /\ HasRoom
  /\ \E n \in Names, v \in Values : Record("set", n, v, set(backer, n, v))

ListDelete ==
  /\ backer # <<>>
  /\ \E n \in Names : Record("delete", n, Undefined, delete(backer, n))

ListGet ==
  /\ TRUE
  /\ \E n \in Names : Record("get", n, Undefined, get(backer, n))

ListHas ==
  /\ TRUE
  /\ \E n \in Names : Record("has", n, Undefined, has(backer, n))

ListClear ==
  /\ backer # <<>>
  /\ Record("clear", Undefined, Undefined, clear(backer))

ListSortAndCombine ==
  /\ TRUE
  /\ Record("sortAndCombine", Undefined, Undefined, sortAndCombine(backer))

NextList ==
  \/ ListAppend \/ ListSet \/ ListDelete \/ ListGet \/ ListHas
  \/ ListClear \/ ListSortAndCombine

\* The library's own code working on a HeadersList.
SpecList == InitHeaders /\ [][NextList]_vars

HeadersAppend ==
  /\ HasRoom
  /\ \E n \in ArgNames, v \in ArgValues :
       Record("append", n, v, Headers_append(backer, guard, n, v))

HeadersSet ==
  /\ HasRoom
  /\ \E n \in ArgNames, v \in ArgValues :
       Record("set", n, v, Headers_set(backer, guard, n, v))

HeadersDelete ==
  /\ TRUE
  /\ \E n \in ArgNames : Record("delete", n, Undefined, Headers_delete(backer, guard, n))

HeadersGet ==
  /\ TRUE
  /\ \E n \in ArgNames : Record("get", n, Undefined, Headers_get(backer, n))

HeadersHas ==
  /\ TRUE
  /\ \E n \in ArgNames : Record("has", n, Undefined, Headers_has(backer, n))

NextHeaders ==
  \/ SetGuard
  \/ HeadersAppend \/ HeadersSet \/ HeadersDelete \/ HeadersGet \/ HeadersHas

\* Callers working on a Headers object.
SpecHeaders == InitHeaders /\ [][NextHeaders]_vars

\* The most items an initializer has.
MaxInit == 3

\* The elements of a sequence initializer: pairs, a pair with an illegal
\* name, and elements of one and of three items.
InitElements ==
  (Names \X {<<"1">>, <<"2">>}) \cup
  {<< <<>>, <<"1">> >>, << <<"a">> >>, << <<"a">>, <<"1">>, <<"2">> >>}

\* A record initializer has each key once.
DistinctKeys(items) ==
  \A i, j \in 1..Len(items) : i # j => items[i][1] # items[j][1]

Initializers ==
  LET Items == UNION {[1..n -> InitElements] : n \in 0..MaxInit}
  IN {NoInit} \cup
     {[kind |-> "sequence", items |-> items] : items \in Items} \cup
     {[kind |-> "record", items |-> items] :
        items \in {it \in Items : DistinctKeys(it) /\ \A i \in 1..Len(it) : Len(it[i]) = 2}}

\* The caller's first call, new Headers(init); ret.result is the new
\* object.  When the constructor throws, the caller has no new object.
HeadersNew ==
  \E init \in Initializers :
    LET h == Headers_constructor(init)
    IN /\ ret.op = "none"
       /\ ret' = [op |-> "new", name |-> Undefined, value |-> init,
                  before |-> backer, guard |-> guard, err |-> h.err,
                  result |-> [backer |-> h.backer, guard |-> h.guard]]
       /\ backer' = IF h.err = "none" THEN h.backer ELSE backer
       /\ guard' = IF h.err = "none" THEN h.guard ELSE guard
       /\ UNCHANGED <<iterator, parserVars>>

NextConstruct == HeadersNew

\* Callers constructing Headers objects from initializers.
SpecConstruct == InitHeaders /\ [][NextConstruct]_vars

\* A call of keys, values or entries that gave result r: the caller keeps
\* the iterator it returned; created is the header list as it was then.
Iterate(op, r) ==
  /\ Call(op, Undefined, Undefined, r)
  /\ iterator' = IF r.err = "none" THEN [created |-> backer] @@ r.value
                 ELSE iterator

HeadersKeys ==
  /\ TRUE
  /\ Iterate("keys", Headers_keys(backer))

HeadersValues ==
  /\ TRUE
  /\ Iterate("values", Headers_values(backer))

HeadersEntries ==
  /\ TRUE
  /\ Iterate("entries", Headers_entries(backer))

\* The caller takes one more step of draining its iterator.
Drain ==
  /\ iterator.made
  /\ ~iterator.done
  /\ iterator.err = "none"
  /\ iterator' = IteratorNext(iterator, backer)
  /\ UNCHANGED <<backer, guard, ret, parserVars>>

NextIterate ==
  \/ HeadersAppend \/ HeadersSet \/ HeadersDelete
  \/ HeadersKeys \/ HeadersValues \/ HeadersEntries \/ Drain

\* Callers iterating over a Headers object while they change it.
SpecIterate == InitHeaders /\ [][NextIterate]_vars

(***************************************************************************)
(* The parser's environment: a caller constructs a parser from a           *)
(* content-type header and writes a byte stream to it in chunks.           *)
(***************************************************************************)

Str_CRLF2 == CRLF \o CRLF

\* Content-Disposition: form-data; name="a"
ContentDisposition ==
  <<"C", "o", "n", "t", "e", "n", "t", "-", "D", "i", "s", "p", "o", "s", "i",
    "t", "i", "o", "n", ":", " ">> \o FormData \o
  <<";", " ", "n", "a", "m", "e", "=", "\"", "a", "\"">>

Hello == <<"h", "e", "l", "l", "o">>

MarkerX == <<"-", "-", "X">>

\* --X CRLF Content-Disposition: form-data; name="a" CRLF CRLF hello CRLF --X--
SingleField ==
  MarkerX \o CRLF \o ContentDisposition \o Str_CRLF2 \o Hello \o CRLF \o
  MarkerX \o <<"-", "-">>

\* A part without headers: the boundary line, then the blank line.
BarePart == MarkerX \o Str_CRLF2

ShortStreams ==
  { \* an empty body
    BarePart \o CRLF \o MarkerX \o <<"-", "-">>,
    \* a body ended by the marker
    BarePart \o <<"a">> \o CRLF \o MarkerX \o CRLF,
    \* a marker that no CRLF precedes
    BarePart \o CRLF \o <<"x">> \o MarkerX,
    \* a body that starts with the marker
    BarePart \o MarkerX \o CRLF,
    \* a near-boundary substring, in another case, before the marker
    BarePart \o CRLF \o <<"-", "-", "x">> \o CRLF \o MarkerX,
    \* a header line and a body
    MarkerX \o CRLF \o <<"k", ":", "v">> \o Str_CRLF2 \o <<"b">> \o CRLF \o MarkerX }

\* Two parts, each with one header line and a body of one byte.
TwoParts ==
  MarkerX \o CRLF \o <<"k", ":", "v">> \o Str_CRLF2 \o <<"a">> \o CRLF \o
  MarkerX \o CRLF \o <<"l", ":", "w">> \o Str_CRLF2 \o <<"b">> \o CRLF \o
  MarkerX \o <<"-", "-">>

\* A part without headers and the terminating boundary line, complete.
Terminated ==
  BarePart \o <<"a">> \o CRLF \o MarkerX \o <<"-", "-">> \o CRLF

\* The length of a body longer than the threshold of line 141.
LongBody == 1025

\* A body of n bytes without CR, LF or hyphen.
Filler(n) == [i \in 1..n |-> "a"]

\* A long body, and a long body that starts with a CRLF.
LongPlain == Filler(LongBody)
LongAfterCrlf == CRLF \o Filler(LongBody)

\* The part without headers that has the given body.
PartOf(body) == BarePart \o body \o CRLF \o MarkerX \o CRLF

LongStreams == {PartOf(LongPlain), PartOf(LongAfterCrlf)}

\* A first line that has a byte before the marker.
Preamble == <<"p">> \o BarePart

\* A marker that no CRLF precedes, in a boundary line that is complete.
Unseparated == BarePart \o CRLF \o <<"x">> \o MarkerX \o CRLF

\* A body that starts with the marker, and a line after it.
MarkerFirst == BarePart \o MarkerX \o CRLF \o <<"z", "z">> \o CRLF

Streams ==
  {SingleField, TwoParts, Terminated, Preamble, Unseparated, MarkerFirst} \cup
  ShortStreams \cup LongStreams

MultipartFormData == Multipart \o <<"/">> \o FormData
BoundaryParam(b) == <<";", " ">> \o BoundaryName \o <<"=">> \o b

\* multipart/form-data; boundary=X
FormDataX == MultipartFormData \o BoundaryParam(<<"X">>)

TextPlain == <<"t", "e", "x", "t", "/", "p", "l", "a", "i", "n">>

ContentTypes ==
  { FormDataX,
    MultipartFormData \o BoundaryParam(<<"Y">>),
    MultipartFormData,
    MultipartFormData \o BoundaryParam(<<>>),
    MultipartFormData \o <<";", " ", "a", "=", "b">>,
    MultipartFormData \o <<"x">> \o BoundaryParam(<<"X">>),
    MultipartFormData \o <<"/">> \o BoundaryParam(<<"X">>),
    <<"M">> \o Tail(MultipartFormData) \o BoundaryParam(<<"X">>),
    TextPlain,
    TextPlain \o BoundaryParam(<<"X">>) }

\* The longest stream that is written in chunks of every size.
MaxFreeLen == 15

Modes == {"byte", "whole", "two", "free"}

\* The sizes the next chunk may have.
ChunkSizes ==
  LET left == Len(input) - written
  IN CASE mode = "byte" -> {1}
       [] mode = "whole" -> {left}
       [] mode = "two" -> IF written = 0 THEN 1..(left - 1) ELSE {left}
       [] mode = "free" -> 1..left

InitParser ==
  /\ parser = NoParser
  /\ header = NoHeader
  /\ input \in Streams
  /\ mode \in Modes
  /\ mode = "free" => Len(input) <= MaxFreeLen
  /\ written = 0
  /\ raised = FALSE
  /\ backer = <<>>
  /\ guard = "none"
  /\ ret = [op |-> "none"]
  /\ iterator = NoIterator

Construct ==
  /\ header = NoHeader
  /\ \E h \in ContentTypes :
       /\ header' = h
       /\ parser' = FormDataParser(h)
  /\ UNCHANGED <<input, written, mode, raised, headersVars>>

WriteChunk ==
  /\ parser # NoParser
  /\ written < Len(input)
  /\ \E n \in ChunkSizes :
       /\ parser' = write([parser EXCEPT !.err = "none", !.log = <<>>],
                          SubSeq(input, written + 1, written + n))
       /\ written' = written + n
  /\ raised' = (raised \/ parser'.err # "none")
  /\ UNCHANGED <<header, input, mode, headersVars>>

NextParser == Construct \/ WriteChunk

SpecParser == InitParser /\ [][NextParser]_vars

(***************************************************************************)
(* Properties of FormDataParser                                            *)
(***************************************************************************)

EventsOfType(t) == SelectSeq(parser.events, LAMBDA e : e.type = t)

\* The whole stream has been written to a parser for boundary X.
Finished(s, m) ==
  /\ header = FormDataX
  /\ input = s
  /\ mode = m
  /\ written = Len(input)

\* The events of the single-field stream written in one write call.
WholeEvents == write(FormDataParser(FormDataX), SingleField).events

\* Writing the single-field stream in one write call gives the three events.
WholeWriteEvents ==
  WholeEvents = << [type |-> "boundary", data |-> <<"X">>],
                   [type |-> "header", data |-> ContentDisposition],
                   [type |-> "body", data |-> Hello] >>

\* C1: the single-field stream written one byte per write call yields,
\* with no write raising an error, exactly one boundary event, exactly one
\* header event carrying the Content-Disposition line and exactly one body
\* event carrying hello.
C1_BytewiseEvents ==
  Finished(SingleField, "byte") =>
    /\ ~raised
    /\ Len(EventsOfType("boundary")) = 1
    /\ EventsOfType("header") = << [type |-> "header", data |-> ContentDisposition] >>
    /\ EventsOfType("body") = << [type |-> "body", data |-> Hello] >>

\* C2: the single-field stream split at any position into two chunks yields
\* the same events, in the same order and with the same payloads, as the
\* stream written in one write call, and no write call raises an error.
C2_ChunkingIndependence ==
  Finished(SingleField, "two") =>
    /\ ~raised
    /\ parser.events = WholeEvents

\* C3: a body event is emitted only when the rolling tail holds the boundary
\* marker immediately preceded by CRLF, and the two bytes dropped between
\* the body payload and the marker are CR LF.
C3_BodyEndsAtCrlfMarker ==
  parser # NoParser =>
    /\ Len(parser.scans) = Len(EventsOfType("body"))
    /\ \A i \in 1..Len(parser.scans) :
         LET scan == parser.scans[i]
         IN /\ SubSeq(scan.tail, scan.index + 1, scan.index + Len(parser.boundary))
                 = parser.boundary
            /\ scan.index >= Len(CRLF)
            /\ SubSeq(scan.tail, scan.index - 1, scan.index) = CRLF

\* The content type is one the constructor must reject: it fails MIME
\* parsing, is not multipart/form-data, or has no boundary parameter.
Rejected(hdr) ==
  LET m == parseMIMEType(hdr)
  IN \/ m = Failure
     \/ m.type # Multipart
     \/ m.subtype # FormData
     \/ ~ParametersHas(m.parameters, BoundaryName)

\* C4: construction fails, leaving no parser, when the content type is not
\* multipart/form-data, fails MIME parsing or has no boundary parameter; for
\* multipart/form-data; boundary=X it succeeds with marker --X and state
\* Beginning.
C4_Construction ==
  header # NoHeader =>
    /\ Rejected(header) => parser = NoParser
    /\ header \in {TextPlain, MultipartFormData} => parser = NoParser
    /\ header = FormDataX =>
         /\ parser # NoParser
         /\ parser.boundary = MarkerX
         /\ written = 0 => parser.state = Beginning

\* C4 witness: construction from text/plain has failed.
C4_Witness == header = TextPlain /\ parser = NoParser

(***************************************************************************)
(* Properties of HeadersList and Headers                                   *)
(***************************************************************************)

\* q is name in some casing.
SameName(q, name) == toLowerCase(q) = toLowerCase(name)

Casings(name) == {q \in Names : SameName(q, name)}

\* str contains sub.
Includes(str, sub) == IndexOf(str, sub, 0) # -1

\* Every name stored in list b is a string.
Clean(b) == \A i \in 1..Len(b) : b[i] # Undefined

RECURSIVE Without(_, _)
\* List b without the pairs whose name is name in some casing.
Without(b, name) ==
  IF b = <<>> THEN <<>>
  ELSE IF b[1] # Undefined /\ SameName(b[1], name)
  THEN Without(SubSeq(b, 3, Len(b)), name)
  ELSE SubSeq(b, 1, 2) \o Without(SubSeq(b, 3, Len(b)), name)

RECURSIVE JoinedValues(_, _)
\* The values of the pairs of b named key in some casing, joined by ", ".
JoinedValues(b, key) ==
  IF b = <<>> THEN <<>>
  ELSE LET rest == JoinedValues(SubSeq(b, 3, Len(b)), key)
           more == \E i \in 1..(Len(b) \div 2) : i > 1 /\ SameName(b[2 * i - 1], key)
       IN IF SameName(b[1], key)
          THEN IF more THEN b[2] \o <<",", " ">> \o rest ELSE b[2]
          ELSE rest

\* entries is the sort-and-combine of the clean list b: sorted ascending by
\* key, one entry per lower-cased name of b, each with the joined values.
IsSortedCombination(entries, b) ==
  /\ \A i \in 1..(Len(entries) - 1) : StringLess(entries[i][1], entries[i + 1][1])
  /\ {entries[i][1] : i \in 1..Len(entries)} =
       {toLowerCase(b[2 * i - 1]) : i \in 1..(Len(b) \div 2)}
  /\ \A i \in 1..Len(entries) : entries[i][2] = JoinedValues(b, entries[i][1])

\* C5: after append(name, value), get(q) for every casing q of name returns
\* a string that contains value, and has(q) returns true.
C5_GetHasAfterAppend ==
  (ret.op = "append" /\ ret.err = "none") =>
    \A q \in Casings(ret.name) :
      /\ get(backer, q).err = "none"
      /\ get(backer, q).value # Null
      /\ Includes(get(backer, q).value, ret.value)
      /\ has(backer, q) = Returned(backer, TRUE)

\* C6: appending a name a second time, in any casing, adds a pair at the
\* end of the list whose name has the casing of the first pair; then get
\* returns both values joined by ", " in append order and sortAndCombine has
\* the name once.
C6_SecondAppendKeepsFirstCasing ==
  (ret.op = "append" /\ Len(ret.before) = 2 /\ SameName(ret.before[1], ret.name)) =>
    /\ ret.err = "none"
    /\ backer = ret.before \o <<ret.before[1], ret.value>>
    /\ get(backer, ret.name) =
         Returned(backer, ret.before[2] \o <<",", " ">> \o ret.value)
    /\ sortAndCombine(backer).err = "none"
    /\ Len(sortAndCombine(backer).value) = 1

\* C7: delete(name) on any reachable list completes without error and
\* removes exactly the pairs whose name is name in some casing, keeping the
\* order of the others; then has(q) is false and get(q) is null for every
\* casing q of name.
C7_DeleteRemovesAll ==
  ret.op = "delete" =>
    /\ ret.err = "none"
    /\ backer = Without(ret.before, ret.name)
    /\ \A q \in Casings(ret.name) :
         /\ has(backer, q) = Returned(backer, FALSE)
         /\ get(backer, q) = Returned(backer, Null)

\* C8: set(name, value), after any appends of name, leaves one pair of that
\* name, equal to (name, value) and last in the list, and the pairs of other
\* names as they were.
C8_SetCollapses ==
  ret.op = "set" =>
    /\ ret.err = "none"
    /\ backer = Without(ret.before, ret.name) \o <<ret.name, ret.value>>

\* C9: sortAndCombine() returns one entry per lower-cased name, with that
\* name's values joined by ", " in list order, sorted ascending by name.
C9_SortAndCombine ==
  (ret.op = "sortAndCombine" /\ Clean(ret.before)) =>
    /\ ret.err = "none"
    /\ IsSortedCombination(ret.result, ret.before)

\* The arguments of the recorded call of a Headers method are legal.
ValidArguments ==
  /\ isValidHeaderName(ret.name)
  /\ ret.op = "delete" \/ isValidHeaderValue(headerValueNormalize(ret.value))

\* C10: with guard immutable, append, set and delete with valid arguments
\* raise an error and leave the header list as it was.
C10_ImmutableRejects ==
  (ret.op \in {"append", "set", "delete"} /\ ret.guard = "immutable"
     /\ ValidArguments) =>
    /\ ret.err # "none"
    /\ backer = ret.before

\* C10 witness: delete of a name the list holds was rejected by the guard.
C10_Witness ==
  /\ ret.op = "delete"
  /\ ret.guard = "immutable"
  /\ ValidArguments
  /\ backer # <<>>
  /\ SameName(backer[1], ret.name)
  /\ ret.err = "immutable"

\* C11: in append, set and delete an illegal name, or an illegal normalized
\* value, raises the invalid-argument error under every guard, also under
\* immutable, and leaves the header list as it was.
C11_ValidationFirst ==
  (ret.op \in {"append", "set", "delete"} /\ ~ValidArguments) =>
    /\ ret.err = "InvalidArgument"
    /\ backer = ret.before

\* C11 witness: under guard immutable a set with an illegal value on a list
\* that holds a pair was rejected as an invalid argument.
C11_Witness ==
  /\ ret.op = "set"
  /\ ret.guard = "immutable"
  /\ isValidHeaderName(ret.name)
  /\ ~isValidHeaderValue(headerValueNormalize(ret.value))
  /\ ret.err = "InvalidArgument"
  /\ backer # <<>>

RECURSIVE AppendEach(_, _)
\* Headers.append called once per pair, in order, as long as none throws,
\* on an object whose guard is none; r is the outcome so far.
AppendEach(r, pairs) ==
  IF pairs = <<>> \/ r.err # "none" THEN r
  ELSE AppendEach(Headers_append(r.backer, "none", pairs[1][1], pairs[1][2]),
                  Tail(pairs))

\* Every element of a sequence initializer has exactly two items.
WellFormed(init) ==
  \A i \in 1..Len(init.items) : Len(init.items[i]) = 2

\* C13: new Headers(init) gives guard none and the header list that append,
\* called once per pair in the initializer's order on an empty Headers
\* object, gives, repeated names included, and throws when those appends
\* throw; a sequence element that has not exactly two items makes it throw.
C13_FillIsAppendEach ==
  ret.op = "new" =>
    LET expected == AppendEach(Returned(<<>>, Undefined), ret.value.items)
    IN /\ ~WellFormed(ret.value) => ret.err # "none"
       /\ WellFormed(ret.value) =>
            /\ ret.err = expected.err
            /\ ret.err = "none" =>
                 /\ ret.result.backer = expected.backer
                 /\ ret.result.guard = "none"

\* C13 witness: a Headers object was constructed from a sequence of three
\* pairs that names one header twice.
C13_Witness ==
  /\ ret.op = "new"
  /\ ret.err = "none"
  /\ ret.value.kind = "sequence"
  /\ Len(ret.value.items) = 3
  /\ ret.value.items[1][1] = ret.value.items[2][1]
  /\ Len(ret.result.backer) = 6

(***************************************************************************)
(* Properties of the steps of FormDataParser                               *)
(***************************************************************************)

\* The bytes written so far.
Written == SubSeq(input, 1, written)

\* The event types follow the sections of a part: a boundary event first,
\* header and body events after a boundary or header event, a boundary
\* event after a body event.
SectionOrder(events) ==
  /\ events # <<>> => events[1].type = "boundary"
  /\ \A i \in 1..(Len(events) - 1) :
       IF events[i].type = "body"
       THEN events[i + 1].type = "boundary"
       ELSE events[i + 1].type \in {"header", "body"}

RECURSIVE InStreamOrder(_, _, _)
\* The payloads of the events lie in the stream one after the other, from
\* offset from on, without overlap.
InStreamOrder(events, stream, from) ==
  IF events = <<>> THEN TRUE
  ELSE LET at == IndexOf(stream, Head(events).data, from)
       IN /\ at # -1
          /\ InStreamOrder(Tail(events), stream, at + Len(Head(events).data))

\* The events are in the order of their sections in the bytes written.
EventsInOrder ==
  parser.constructed =>
    /\ SectionOrder(parser.events)
    /\ InStreamOrder(parser.events, Written, 0)

\* A step emits events only while it writes a chunk, and adds them after
\* the events emitted before.
EmitsInWrite ==
  (parser.constructed /\ parser'.events # parser.events) =>
    /\ written' > written
    /\ Len(parser'.events) > Len(parser.events)
    /\ SubSeq(parser'.events, 1, Len(parser.events)) = parser.events

\* C14: every event is emitted while a write call runs, and over any
\* sequence of write calls the events come in the order of their sections
\* in the byte stream: for each part the boundary event, then the header
\* events in line order, then the body event, before the events of the
\* next part.
C14_EventsSynchronousInOrder == [](EventsInOrder) /\ [][EmitsInWrite]_vars

\* C14 witness: the two-part stream written in two chunks has given the six
\* events of its two parts.
C14_Witness ==
  /\ Finished(TwoParts, "two")
  /\ Len(parser.events) = 6
  /\ parser.events[4].type = "boundary"
  /\ parser.events[6] = [type |-> "body", data |-> <<"b">>]

\* The entries of the last write call.
Log == parser.log

\* The state and the number of events emitted at the entry that follows
\* entry i of the log, or at the return of the write call if i is the last.
After(i) ==
  IF i < Len(Log)
  THEN [state |-> Log[i + 1].state, emitted |-> Log[i + 1].emitted]
  ELSE [state |-> parser.state, emitted |-> Len(parser.events)]

\* The events emitted between entry i and the entry that follows it.
EmittedAt(i) == SubSeq(parser.events, Log[i].emitted + 1, After(i).emitted)

\* The state changes the parser may make.
Transitions ==
  {<<Beginning, Headers>>, <<Headers, Body>>, <<Body, Boundary>>,
   <<Boundary, Headers>>}

\* C15: the parser changes state only from Beginning to Headers, Headers to
\* Body, Body to Boundary and Boundary to Headers, so never back to
\* Beginning; and parse of a completed boundary line, the terminating
\* line --boundary-- included, leaves the parser in Headers.
C15_Transitions ==
  parser.constructed =>
    \A i \in 1..Len(Log) :
      /\ Log[i].state = After(i).state \/ <<Log[i].state, After(i).state>> \in Transitions
      /\ Log[i].kind = "write" => After(i).state = Log[i].state
      /\ (/\ Log[i].kind = "parse"
          /\ Log[i].state \in {Beginning, Boundary}
          /\ IndexOf(Concat(Log[i].current), parser.boundary, 0) # -1)
           => After(i).state = Headers

\* C15 witness: the terminating boundary line, complete, has been parsed
\* and the parser is in Headers.
C15_Witness ==
  /\ Finished(Terminated, "whole")
  /\ parser.state = Headers
  /\ Len(parser.events) = 3
  /\ parser.events[3] = [type |-> "boundary", data |-> <<"X", "-", "-">>]
  /\ \E i \in 1..Len(Log) : Log[i].kind = "parse" /\ Log[i].state = Boundary

\* Entry i of the log is a call of parse in the given state.
ParseIn(i, state) == Log[i].kind = "parse" /\ Log[i].state = state

\* The queues are empty when entry i has done its own work: at the entry
\* that follows it, or at the return of the write call if i is the last.
QueuesEmptyAfter(i) ==
  IF i < Len(Log)
  THEN Log[i + 1].current = <<>> /\ Log[i + 1].next = <<>>
  ELSE parser.currentChunk = <<>> /\ parser.nextChunk = <<>>

\* What follows entry i is the write of the remainder rest, or, when there
\* is none, the return of the write call.
Reinjected(i, rest) ==
  IF rest = <<>> THEN i = Len(Log)
  ELSE /\ i < Len(Log)
       /\ Log[i + 1].kind = "write"
       /\ Log[i + 1].chunk = rest

\* C16: in state Headers, when write finds the CRLF of a line, the line
\* being the bytes of all chunks buffered for it up to that CRLF: an empty
\* line moves the parser to Body and emits no event; a non-empty line emits
\* exactly one header event whose payload is those bytes and leaves the
\* parser in Headers; in both cases the chunk queues are emptied and the
\* bytes after the CRLF, if any, are then written through write.
C16_HeaderLines ==
  parser.constructed =>
    \A i \in 2..Len(Log) :
      ParseIn(i, Headers) =>
        LET w == Log[i - 1]
            crlf == IndexOf(w.chunk, CRLF, 0)
            line == Concat(w.current) \o SubSeq(w.chunk, 1, crlf)
            rest == SubSeq(w.chunk, crlf + 3, Len(w.chunk))
        IN /\ w.kind = "write" /\ w.state = Headers /\ crlf # -1
           /\ IF line = <<>>
              THEN After(i).state = Body /\ EmittedAt(i) = <<>>
              ELSE /\ After(i).state = Headers
                   /\ EmittedAt(i) = <<[type |-> "header", data |-> line]>>
           /\ QueuesEmptyAfter(i)
           /\ Reinjected(i, rest)

\* C16 witness: a header line that came in two chunks was completed and
\* emitted whole, and the empty line after it moved the parser to Body, each
\* followed by the write of its remainder.
C16_Witness ==
  /\ header = FormDataX /\ input = SingleField /\ mode = "two"
  /\ \E i, j \in 2..(Len(Log) - 1) :
       /\ i < j
       /\ ParseIn(i, Headers)
       /\ Len(Log[i].current) = 2
       /\ Log[i].current[1] # <<>>
       /\ EmittedAt(i) = <<[type |-> "header", data |-> ContentDisposition]>>
       /\ ParseIn(j, Headers)
       /\ Log[j].current = << <<>> >>
       /\ After(j).state = Body
       /\ Log[j + 1].kind = "write"

\* The rolling tail that the write of entry w searches: the chunk, joined
\* to the tail kept before it if there is one.
TailAt(w) == IF w.tail = Undefined THEN w.chunk ELSE w.tail \o w.chunk

\* The rolling tail at the entry that follows entry i, or at the return of
\* the write call if i is the last.
TailAfter(i) == IF i < Len(Log) THEN Log[i + 1].tail ELSE parser.lastBytes

\* C17: in state Body, at whatever index the boundary marker is first
\* found in the rolling tail, write emits exactly one body event whose
\* payload is the body bytes before the CRLF that precedes the marker and
\* does not contain the marker, clears the tail, moves the parser to
\* Boundary and writes back a remainder that starts at the marker.
C17_BodyAtMarker ==
  parser.constructed =>
    \A i \in 2..Len(Log) :
      ParseIn(i, Body) =>
        LET w == Log[i - 1]
            index == IndexOf(TailAt(w), parser.boundary, 0)
            payload == Concat(w.current) \o SubSeq(TailAt(w), 1, index - 2)
        IN /\ index >= 2
           /\ SubSeq(TailAt(w), index - 1, index) = CRLF
           /\ EmittedAt(i) = <<[type |-> "body", data |-> payload]>>
           /\ IndexOf(payload, parser.boundary, 0) = -1
           /\ TailAfter(i) = Undefined
           /\ After(i).state = Boundary
           /\ i < Len(Log)
           /\ Log[i + 1].kind = "write"
           /\ startsWith(Log[i + 1].chunk, parser.boundary)

\* The body events, in order.
BodyEvents == EventsOfType("body")

\* C18: in state Body with no rolling tail, the write of a chunk without
\* CRLF returns without error and without event, with the chunk put on the
\* chunk queue; and the chunks so deferred are the front of the payload of
\* the part's body event.
C18_DeferredChunk ==
  parser.constructed =>
    /\ \A i \in 1..Len(Log) :
         (/\ Log[i].kind = "write"
          /\ Log[i].state = Body
          /\ Log[i].tail = Undefined
          /\ IndexOf(Log[i].chunk, CRLF, 0) = -1)
           => /\ i = Len(Log)
              /\ parser.err = "none"
              /\ EmittedAt(i) = <<>>
              /\ parser.currentChunk = Append(Log[i].current, Log[i].chunk)
    /\ Len(parser.scans) = Len(BodyEvents)
    /\ \A k \in 1..Len(parser.scans) :
         startsWith(BodyEvents[k].data, parser.scans[k].held)

\* After the write of entry w, in state Body, the rolling tail holds no
\* boundary marker.
NoMarkerAfter(w) ==
  /\ w.kind = "write"
  /\ w.state = Body
  /\ \/ w.tail = Undefined /\ IndexOf(w.chunk, CRLF, 0) = -1
     \/ IndexOf(TailAt(w), parser.boundary, 0) = -1

\* C19: the threshold of 1024 bytes on the rolling tail decides nothing:
\* while the tail holds no marker a write emits no event, whether the tail
\* is shorter or longer than the threshold; and a part whose body is longer
\* than the threshold, written in one or several chunks, gives exactly one
\* body event, whose payload is exactly the body bytes before the CRLF and
\* marker.
C19_ThresholdNeutral ==
  parser.constructed =>
    /\ \A i \in 1..Len(Log) :
         NoMarkerAfter(Log[i]) => (i = Len(Log) /\ EmittedAt(i) = <<>>)
    /\ \A body \in {LongPlain, LongAfterCrlf} :
         (header = FormDataX /\ input = PartOf(body) /\ written = Len(input))
           => BodyEvents = <<[type |-> "body", data |-> body]>>

\* C20: in state Boundary the two bytes write skips are the CRLF between
\* the previous body and the boundary line, which the first chunk of the
\* line starts with, and no other bytes of the line: a CRLF after that
\* point, at any offset of any chunk of the line, ends the line, whose bytes
\* are then handed to parse.
C20_BoundarySkip ==
  parser.constructed =>
    \A i \in 1..Len(Log) :
      (Log[i].kind = "write" /\ Log[i].state = Boundary) =>
        LET w == Log[i]
            first == w.current = <<>>
            crlf == IndexOf(w.chunk, CRLF, IF first THEN 2 ELSE 0)
        IN /\ first => SubSeq(w.chunk, 1, 2) = CRLF
           /\ crlf # -1 =>
                /\ i < Len(Log)
                /\ Log[i + 1].kind = "parse"
                /\ Concat(Log[i + 1].current) =
                     Concat(w.current) \o SubSeq(w.chunk, 1, crlf)

\* The boundary parameter: the marker without its two leading hyphens.
BoundaryParameter == SubSeq(parser.boundary, 3, Len(parser.boundary))

\* The bytes before the marker in a boundary line: the two hyphens in state
\* Beginning, the CRLF and the two hyphens in state Boundary.
LinePrefix(state) ==
  IF state = Beginning THEN <<"-", "-">> ELSE CRLF \o <<"-", "-">>

\* C21: for every completed line of state Beginning or Boundary that holds
\* the marker, parse emits exactly one boundary event whose payload is the
\* bytes of the line after the two leading hyphens of the marker, so that
\* it begins with the boundary parameter: the bytes dropped are the two
\* hyphens in Beginning and the CRLF and two hyphens in Boundary.
C21_BoundaryPayload ==
  parser.constructed =>
    \A i \in 1..Len(Log) :
      LET line == Concat(Log[i].current)
          prefix == LinePrefix(Log[i].state)
      IN (/\ Log[i].kind = "parse"
          /\ Log[i].state \in {Beginning, Boundary}
          /\ IndexOf(line, parser.boundary, 0) # -1)
           => /\ startsWith(line, prefix)
              /\ EmittedAt(i) =
                   <<[type |-> "boundary",
                      data |-> SubSeq(line, Len(prefix) + 1, Len(line))]>>
              /\ startsWith(SubSeq(line, Len(prefix) + 1, Len(line)),
                            BoundaryParameter)

\* Entry i of the log is the parse of a completed line of state Beginning
\* or Boundary that does not hold the marker.
LineWithoutMarker(i) ==
  /\ Log[i].kind = "parse"
  /\ Log[i].state \in {Beginning, Boundary}
  /\ IndexOf(Concat(Log[i].current), parser.boundary, 0) = -1

\* C22: when a completed line of state Beginning or Boundary does not hold
\* the marker, the write call that completed it ends with the assertion
\* failure, nothing runs after the failed parse, no event is emitted for
\* the line and the parser stays in the state it was in, not Headers.
C22_AssertionFailure ==
  parser.constructed =>
    \A i \in 1..Len(Log) :
      LineWithoutMarker(i) =>
        /\ i = Len(Log)
        /\ parser.err = "AssertionError"
        /\ raised
        /\ EmittedAt(i) = <<>>
        /\ parser.state = Log[i].state

\* C22 witness: a write in state Boundary completed a line without the
\* marker and failed, after the events of the part before it.
C22_Witness ==
  /\ parser.constructed
  /\ parser.events # <<>>
  /\ parser.state = Boundary
  /\ parser.err = "AssertionError"
  /\ Log # <<>>
  /\ LineWithoutMarker(Len(Log))

\* A first line without the marker failed the assertion.
BeginningLineFailed ==
  /\ parser.constructed
  /\ parser.events = <<>>
  /\ parser.state = Beginning
  /\ parser.err = "AssertionError"
  /\ Log # <<>>
  /\ LineWithoutMarker(Len(Log))

\* The bytes the write of entry w works on: the rolling tail in state Body,
\* the chunk in the other states.
PendingAt(w) == IF w.state = Body THEN TailAt(w) ELSE w.chunk

RECURSIVE Occurrences(_, _, _)
\* The number of places at or after offset from where pat occurs in buf.
Occurrences(buf, pat, from) ==
  LET at == IndexOf(buf, pat, from)
  IN IF at = -1 THEN 0 ELSE 1 + Occurrences(buf, pat, at + 1)

\* The calls of write in the log: the caller's and the re-injected ones.
WriteEntries == {i \in 1..Len(Log) : Log[i].kind = "write"}

\* Entry j is a write that parse re-injected: the entry before it is that
\* parse, and the one before that the write that called the parse.
Reinjection(j) ==
  /\ j >= 3
  /\ Log[j].kind = "write"

\* C23: every re-injection made by parse passes a remainder strictly
\* shorter than the bytes that produced it, so the recursion of write and
\* parse ends, after at most as many writes as the pending bytes hold line
\* ends and markers.
C23_StrictlyShorter ==
  parser.constructed =>
    /\ \A j \in 1..Len(Log) :
         Reinjection(j) =>
           /\ Log[j - 1].kind = "parse" /\ Log[j - 2].kind = "write"
           /\ Len(Log[j].chunk) < Len(PendingAt(Log[j - 2]))
    /\ Log # <<>> =>
         Cardinality(WriteEntries) <=
           1 + Occurrences(PendingAt(Log[1]), CRLF, 0)
             + Occurrences(PendingAt(Log[1]), parser.boundary, 0)

\* C23 amended: a remainder is never longer than the bytes that produced
\* it; it is strictly shorter unless it comes from state Body with the
\* marker at index 2 of the tail (no body bytes in the tail), where it is
\* the whole tail, written in state Boundary, whose own remainder is then
\* strictly shorter; and a write call makes at most as many writes as the pending
\* bytes hold line ends and markers, plus one.
C23_RemainderShrinks ==
  parser.constructed =>
    /\ \A j \in 1..Len(Log) :
         Reinjection(j) =>
           LET w == Log[j - 2]
               atTwo == w.state = Body /\
                        IndexOf(TailAt(w), parser.boundary, 0) = 2
           IN /\ Log[j - 1].kind = "parse" /\ w.kind = "write"
              /\ Len(Log[j].chunk) <= Len(PendingAt(w))
              /\ ~atTwo => Len(Log[j].chunk) < Len(PendingAt(w))
              /\ atTwo => (Log[j].chunk = TailAt(w) /\ Log[j].state = Boundary)
    /\ Log # <<>> =>
         Cardinality(WriteEntries) <=
           1 + Occurrences(PendingAt(Log[1]), CRLF, 0)
             + Occurrences(PendingAt(Log[1]), parser.boundary, 0)

\* C23 witness: an empty body, whose whole tail was written back, in a
\* write call that made four writes.
C23_Witness ==
  /\ parser.constructed
  /\ Cardinality(WriteEntries) >= 4
  /\ \E j \in 3..Len(Log) :
       /\ Log[j].kind = "write"
       /\ Log[j - 2].state = Body
       /\ Log[j].chunk = TailAt(Log[j - 2])
       /\ parser.events[Log[j].emitted] = [type |-> "body", data |-> <<>>]

\* The rolling tail is set.
TailSet == parser.lastBytes # Undefined

\* C24: between write calls at most one of the two buffers holds pending
\* bytes: the rolling tail is set only while the state is Body, and while
\* the state is Body the chunk queues hold no bytes.
C24_OneBuffer ==
  parser.constructed =>
    /\ TailSet => parser.state = Body
    /\ parser.state = Body =>
         (Concat(parser.currentChunk) = <<>> /\ Concat(parser.nextChunk) = <<>>)

\* C24 amended: the rolling tail is set only while the state is Body, also
\* at every entry to write and parse, so it is unset on leaving Body; while
\* the state is Body the next queue is empty and the current queue holds
\* only body chunks without CRLF, which may be there together with the
\* tail.
C24_TailOnlyInBody ==
  parser.constructed =>
    /\ TailSet => parser.state = Body
    /\ \A i \in 1..Len(Log) : Log[i].tail # Undefined => Log[i].state = Body
    /\ parser.state = Body =>
         /\ parser.nextChunk = <<>>
         /\ \A k \in 1..Len(parser.currentChunk) :
              IndexOf(parser.currentChunk[k], CRLF, 0) = -1

\* C24 witness: between two write calls, in state Body, the tail is set
\* and the current queue holds a deferred chunk.
C24_Witness ==
  /\ parser.constructed
  /\ parser.state = Body
  /\ TailSet
  /\ Concat(parser.currentChunk) # <<>>
  /\ written < Len(input)


\* The pairs of list b.
Pairs(b) == 1..(Len(b) \div 2)

\* C25: after any sequence of append, set, delete and clear calls the
\* backing array has even length, every even-index entry is a string header
\* name some caller supplied (up to case) followed by a supplied value, the
\* pair a completed append or set added holds the name and the value of that
\* call, and the pairs whose names match case-insensitively store identical
\* names.
C25_ListInvariant ==
  /\ Len(backer) % 2 = 0
  /\ \A i \in Pairs(backer) :
       /\ backer[2 * i - 1] # Undefined
       /\ \E n \in Names : SameName(backer[2 * i - 1], n)
       /\ backer[2 * i] \in Values
  /\ (ret.op \in {"append", "set"} /\ ret.err = "none") =>
       /\ backer # <<>>
       /\ SameName(backer[Len(backer) - 1], ret.name)
       /\ backer[Len(backer)] = ret.value
  /\ \A i, j \in Pairs(backer) :
       SameName(backer[2 * i - 1], backer[2 * j - 1]) =>
         backer[2 * i - 1] = backer[2 * j - 1]

RECURSIVE HeadLineEnds(_, _)
\* The ends of the CRLF-terminated lines of stream s from offset from, up
\* to and with the first blank line.
HeadLineEnds(s, from) ==
  LET crlf == IndexOf(s, CRLF, from)
  IN IF crlf = -1 THEN <<>>
     ELSE IF crlf = from THEN <<crlf + 2>>
     ELSE <<crlf + 2>> \o HeadLineEnds(s, crlf + 2)

\* The stream starts with the boundary line of the parser's boundary.
StartsWithBoundaryLine ==
  /\ parser.constructed
  /\ header = FormDataX
  /\ Len(input) >= 5
  /\ SubSeq(input, 1, 5) = MarkerX \o CRLF

\* The effect of line k of the n lines of the first part's head has
\* happened: the boundary event of the first line, the header event of a
\* header line, the transition to Body of the blank line (a parser leaves
\* Body only with a body event).
LineEffect(k, n) ==
  IF k = 1 THEN Len(EventsOfType("boundary")) >= 1
  ELSE IF k < n THEN Len(EventsOfType("header")) >= k - 1
  ELSE parser.state = Body \/ EventsOfType("body") # <<>>

\* C26: in Beginning and Headers state, once the bytes written so far hold
\* a complete CRLF-terminated line, the effect of the line has happened when
\* the write call that delivered its LF has returned, for every chunking.
C26_LineResponse ==
  StartsWithBoundaryLine =>
    LET ends == HeadLineEnds(input, 0)
    IN \A k \in 1..Len(ends) :
         written >= ends[k] => LineEffect(k, Len(ends))

====
